---------------------------- MODULE Spec2Model ----------------------------
(***************************************************************************)
(* Blackjack round engine of src/gui.py: the shoe (Deck), the hand value   *)
(* (value_of_hand) and the three handlers of BlackjackApp (new_round, hit, *)
(* stand with _dealer_play and _end_round).  Every handler is one action:  *)
(* Tkinter runs one callback to completion before the next.                *)
(*                                                                         *)
(* The shoe.  Deck.__init__ builds the list of all cards and shuffles it;  *)
(* Deck.deal pops the last element.  Nothing else reads the list, so the   *)
(* order of the cards still in the shoe is only ever observed one pop at a *)
(* time.  The model keeps the shoe as the SET of cards not yet dealt and   *)
(* lets each pop return any of them: the runs are exactly those of every   *)
(* possible shuffle, the permutation being chosen one card at a time.      *)
(***************************************************************************)
EXTENDS Integers, Sequences, FiniteSets

----------------------------------------------------------------------------
(* Bounds of the model *)

\* The shoe holds the first DeckSize cards of DeckOrder (the program: all 52).
DeckSize == 5

\* Rounds accepted by new_round in one run.
MaxRounds == 2

\* An odd stake among the bets the user types (int(bet * 2.5) rounds down).
OddBet == 5

\* Rounds accepted in the specifications that run stand one loop turn at a
\* time (SpecSteps, FairSteps).
StepRounds == 1

\* Cards dealt one after the other in the specification SpecDeck (more than
\* a shoe holds, so that it is refilled).
MaxDeals == 7

\* Longest hand whose reorderings are valued in the specification SpecOrder.
MaxOrderLen == 3

\* Longest hand handed to value_of_hand in the specification SpecHand.
MaxHandLen == 4

----------------------------------------------------------------------------
(* Cards *)

SUITS == <<"spades", "hearts", "diamonds", "clubs">>

RANKS == <<"2", "3", "4", "5", "6", "7", "8", "9", "10", "J", "Q", "K", "A">>

\* [(r, s) for s in SUITS for r in RANKS]: the 52 cards of Deck.__init__.
AllCards == { <<RANKS[i], SUITS[j]>> : i \in 1..Len(RANKS), j \in 1..Len(SUITS) }

\* The list Deck.__init__ builds before shuffling it, suit by suit.
SourceDeck ==
  [k \in 1..(Len(SUITS) * Len(RANKS)) |->
     <<RANKS[((k - 1) % Len(RANKS)) + 1], SUITS[((k - 1) \div Len(RANKS)) + 1]>>]

\* The cards a bounded shoe takes first: aces, kings and a six give
\* naturals, soft hands, busts, dealer draws and pushes.
FirstCards ==
  << <<"A", "spades">>, <<"K", "spades">>, <<"6", "spades">>,
     <<"A", "hearts">>, <<"K", "hearts">>, <<"6", "hearts">>,
     <<"5", "spades">>, <<"9", "spades">> >>

InFirstCards(c) == \E i \in 1..Len(FirstCards) : FirstCards[i] = c

NotInFirstCards(c) == ~InFirstCards(c)

\* All 52 cards: FirstCards, then the others in the order of SourceDeck.
DeckOrder == FirstCards \o SelectSeq(SourceDeck, NotInFirstCards)

Min(a, b) == IF a < b THEN a ELSE b

\* Deck.__init__: the full content of a fresh shoe (its order is random).
FreshDeck == { DeckOrder[i] : i \in 1..Min(DeckSize, Len(DeckOrder)) }

\* int(r) for the numeric ranks.
IntOfRank(r) ==
  CASE r = "2" -> 2 [] r = "3" -> 3 [] r = "4" -> 4 [] r = "5" -> 5
    [] r = "6" -> 6 [] r = "7" -> 7 [] r = "8" -> 8 [] r = "9" -> 9
    [] r = "10" -> 10

----------------------------------------------------------------------------
(* value_of_hand *)

\* The for loop: every card adds 10 (J, Q, K), 11 (A) or int(r).
RECURSIVE SumVals(_)
SumVals(hand) ==
  IF hand = <<>> THEN 0
  ELSE LET r == Head(hand)[1]
       IN  (IF r \in {"J", "Q", "K"} THEN 10
            ELSE IF r = "A" THEN 11
            ELSE IntOfRank(r)) + SumVals(Tail(hand))

\* The for loop's count of aces.
RECURSIVE CountAces(_)
CountAces(hand) ==
  IF hand = <<>> THEN 0
  ELSE (IF Head(hand)[1] = "A" THEN 1 ELSE 0) + CountAces(Tail(hand))

\* Variant of ReduceAces: an if in place of the while, one ace reduced.
ReduceAcesOnce(vals, aces) ==
  IF vals > 21 /\ aces > 0 THEN vals - 10 ELSE vals

\* while vals > 21 and aces: vals -= 10; aces -= 1
RECURSIVE ReduceAces(_, _)
ReduceAces(vals, aces) ==
  IF vals > 21 /\ aces > 0 THEN ReduceAces(vals - 10, aces - 1) ELSE vals

\* Variant of value_of_hand: an ace is counted 11 or 1 when the loop meets
\* it, by the total so far.
RECURSIVE RunningValue(_, _)
RunningValue(hand, acc) ==
  IF hand = <<>> THEN acc
  ELSE LET r == Head(hand)[1]
           v == IF r \in {"J", "Q", "K"} THEN 10
                ELSE IF r = "A" THEN (IF acc + 11 <= 21 THEN 11 ELSE 1)
                ELSE IntOfRank(r)
       IN  RunningValue(Tail(hand), acc + v)

ValueAcesAsSeen(hand) == RunningValue(hand, 0)

value_of_hand(hand) == ReduceAces(SumVals(hand), CountAces(hand))

----------------------------------------------------------------------------
(* Deck.deal *)

\* Variant of ShoeToPop: deal without the refill of an empty shoe.
ShoeToPopNoRefill(cs) == cs

\* The shoe deal pops from: refilled by Deck.__init__ when it is empty.
ShoeToPop(cs) == IF cs = {} THEN FreshDeck ELSE cs

\* Variant of Deal: the card is any card of the deck, whether the shoe
\* still holds it or not.
DealAnyCard(cs) == { <<c, ShoeToPop(cs) \ {c}>> : c \in FreshDeck }

\* Variant of Deal: the card is read from the shoe and left in it.
DealKeepsCard(cs) == { <<c, ShoeToPop(cs)>> : c \in ShoeToPop(cs) }

\* Deck.deal: every <<card returned, shoe left>> the pop can produce.
Deal(cs) == { <<c, ShoeToPop(cs) \ {c}>> : c \in ShoeToPop(cs) }


\* Variant of DealerPlay: the dealer also draws on 17.
RECURSIVE DealerPlayHits17(_, _)
DealerPlayHits17(hand, cs) ==
  IF value_of_hand(hand) <= 17
  THEN UNION { DealerPlayHits17(Append(hand, d[1]), d[2]) : d \in Deal(cs) }
  ELSE { <<hand, cs>> }

\* while value_of_hand(self.dealer) < 17: self.dealer.append(self.deck.deal())
\* Every <<dealer hand, shoe>> the loop can end with.
RECURSIVE DealerPlay(_, _)
DealerPlay(hand, cs) ==
  IF value_of_hand(hand) < 17
  THEN UNION { DealerPlay(Append(hand, d[1]), d[2]) : d \in Deal(cs) }
  ELSE { <<hand, cs>> }

----------------------------------------------------------------------------
(* Settlement: _end_round and the blackjack check of new_round *)

StartBankroll == 1000

StartBet == 10

ResetBankroll == 1000

\* Variant of EndRoundResult: the bust of the player is not looked at first.
EndRoundResultNoBust(pv, dv) ==
  IF dv > 21 THEN "win"
  ELSE IF pv > dv THEN "win"
  ELSE IF pv = dv THEN "push"
  ELSE "lose"

\* _end_round: the if chain that names the result.
EndRoundResult(pv, dv) ==
  IF pv > 21 THEN "lose"
  ELSE IF dv > 21 THEN "win"
  ELSE IF pv > dv THEN "win"
  ELSE IF pv = dv THEN "push"
  ELSE "lose"

\* Variant of EndRoundWinnings: a win returns the stake without the profit.
EndRoundWinningsStakeOnly(result, b) ==
  IF result = "win" THEN b
  ELSE IF result = "push" THEN b
  ELSE 0

\* _end_round: what the result adds to the bankroll.
EndRoundWinnings(result, b) ==
  IF result = "win" THEN b * 2
  ELSE IF result = "push" THEN b
  ELSE 0

\* Variant of CheckBankroll: the reset is taken below 0 only.
CheckBankrollBelowZero(bk) == IF bk < 0 THEN ResetBankroll ELSE bk

\* _end_round: if self.bankroll <= 0: self.bankroll = 1000
CheckBankroll(bk) == IF bk <= 0 THEN ResetBankroll ELSE bk

\* Variant of BlackjackWinnings: the half is rounded up.
BlackjackWinningsUp(b) == (b * 5 + 1) \div 2

\* int(self.bet * 2.5): the product is a float, int() drops its fraction
\* (towards zero).
BlackjackWinnings(b) ==
  IF b >= 0 THEN (b * 5) \div 2 ELSE 0 - ((0 - b * 5) \div 2)

\* _update_ui, the player label: the bracketed total, shown for a hand that
\* has cards.
PlayerLabel(hand) == IF hand = <<>> THEN <<>> ELSE <<value_of_hand(hand)>>

----------------------------------------------------------------------------
(* State *)

VARIABLES
  cards,         \* self.deck.cards: the cards still in the shoe
  player,        \* self.player
  dealer,        \* self.dealer
  in_round,      \* self.in_round
  bankroll,      \* self.bankroll
  bet,           \* self.bet
  btn_hit,       \* state of the Hit button
  btn_stand,     \* state of the Stand button
  lbl_bankroll,  \* number shown by the bankroll label
  txt_player,    \* total shown by the player label
  last_call,     \* the handler that ran last and the path it returned by
  rounds         \* rounds accepted so far (bounds the run)

vars == <<cards, player, dealer, in_round, bankroll, bet, btn_hit, btn_stand,
          lbl_bankroll, txt_player, last_call, rounds>>

\* What the engine owns: everything but the widgets and the bookkeeping.
engine == <<cards, player, dealer, in_round, bankroll, bet>>

widgets == <<btn_hit, btn_stand, lbl_bankroll, txt_player>>

\* BlackjackApp.__init__
Init ==
  /\ cards = FreshDeck
  /\ player = <<>>
  /\ dealer = <<>>
  /\ in_round = FALSE
  /\ bankroll = StartBankroll
  /\ bet = StartBet
  /\ btn_hit = "disabled"
  /\ btn_stand = "disabled"
  /\ lbl_bankroll = StartBankroll
  /\ txt_player = <<>>
  /\ last_call = "init"
  /\ rounds = 0

----------------------------------------------------------------------------
(* new_round *)

\* What the bet entry can hold when New Round is pressed: text that int()
\* rejects, or the decimal text of an integer.
BetEntries ==
  { [kind |-> "text", val |-> 0] } \cup
  { [kind |-> "int", val |-> n] :
      n \in {0 - 1, 0, OddBet, bankroll, bankroll + 1} }

\* Variant of OpeningHands: the dealer is served before the player.
OpeningHandsDealerFirst(c1, c2, c3, c4) == << <<c3, c4>>, <<c1, c2>> >>

\* self.player = [deal(), deal()]; self.dealer = [deal(), deal()], for the
\* four cards in the order the shoe gave them: <<player, dealer>>.
OpeningHands(c1, c2, c3, c4) == << <<c1, c2>>, <<c3, c4>> >>

\* Variant of StartRound: only the player's 21 against a dealer without 21
\* is settled in new_round; 21 against 21 goes on to the player's turn.
StartRoundNoPush(b, c1, c2, c3, c4, cs) ==
  LET hand == OpeningHands(c1, c2, c3, c4)[1]
      dhand == OpeningHands(c1, c2, c3, c4)[2]
      pv == value_of_hand(hand)
      dv == value_of_hand(dhand)
      staked == bankroll - b
  IN  /\ bet' = b
      /\ player' = hand
      /\ dealer' = dhand
      /\ cards' = cs
      /\ rounds' = rounds + 1
      /\ last_call' = "new_round:ok"
      /\ txt_player' = PlayerLabel(hand)
      /\ IF pv = 21 /\ dv # 21
         THEN /\ bankroll' = staked + BlackjackWinnings(b)
              /\ in_round' = FALSE
              /\ UNCHANGED <<btn_hit, btn_stand>>
         ELSE /\ bankroll' = staked
              /\ in_round' = TRUE
              /\ btn_hit' = "normal"
              /\ btn_stand' = "normal"
      /\ lbl_bankroll' = bankroll'

\* The body of new_round after the three checks, for bet b and the four
\* cards dealt.
StartRound(b, c1, c2, c3, c4, cs) ==
  LET hand == OpeningHands(c1, c2, c3, c4)[1]
      dhand == OpeningHands(c1, c2, c3, c4)[2]
      pv == value_of_hand(hand)
      dv == value_of_hand(dhand)
      staked == bankroll - b
  IN  /\ bet' = b
      /\ player' = hand
      /\ dealer' = dhand
      /\ cards' = cs
      /\ rounds' = rounds + 1
      /\ last_call' = "new_round:ok"
      /\ txt_player' = PlayerLabel(hand)
      /\ IF pv = 21 /\ dv # 21
         THEN /\ bankroll' = staked + BlackjackWinnings(b)
              /\ in_round' = FALSE
              /\ UNCHANGED <<btn_hit, btn_stand>>
         ELSE IF pv = 21 /\ dv = 21
         THEN /\ bankroll' = staked + b
              /\ in_round' = FALSE
              /\ UNCHANGED <<btn_hit, btn_stand>>
         ELSE /\ bankroll' = staked
              /\ in_round' = TRUE
              /\ btn_hit' = "normal"
              /\ btn_stand' = "normal"
      /\ lbl_bankroll' = bankroll'

\* Variant of NewRound: the bet is validated before the round in progress
\* is looked at.
NewRoundBetFirst ==
  \E e \in BetEntries :
    IF e.kind # "int" \/ e.val <= 0
    THEN /\ last_call' = "new_round:invalid_bet"
         /\ UNCHANGED <<engine, widgets, rounds>>
    ELSE IF e.val > bankroll
    THEN /\ last_call' = "new_round:insufficient"
         /\ UNCHANGED <<engine, widgets, rounds>>
    ELSE IF in_round
    THEN /\ last_call' = "new_round:in_progress"
         /\ UNCHANGED <<engine, widgets, rounds>>
    ELSE /\ rounds < MaxRounds
         /\ \E a \in Deal(cards) : \E b \in Deal(a[2]) :
            \E c \in Deal(b[2]) : \E d \in Deal(c[2]) :
              StartRound(e.val, a[1], b[1], c[1], d[1], d[2])

NewRound ==
  \E e \in BetEntries :
    IF in_round
    THEN /\ last_call' = "new_round:in_progress"
         /\ UNCHANGED <<engine, widgets, rounds>>
    ELSE IF e.kind # "int" \/ e.val <= 0
    THEN /\ last_call' = "new_round:invalid_bet"
         /\ UNCHANGED <<engine, widgets, rounds>>
    ELSE IF e.val > bankroll
    THEN /\ last_call' = "new_round:insufficient"
         /\ UNCHANGED <<engine, widgets, rounds>>
    ELSE /\ rounds < MaxRounds
         /\ \E a \in Deal(cards) : \E b \in Deal(a[2]) :
            \E c \in Deal(b[2]) : \E d \in Deal(c[2]) :
              StartRound(e.val, a[1], b[1], c[1], d[1], d[2])

----------------------------------------------------------------------------
(* hit *)

\* Variant of HitCard: a bust leaves the two buttons as they are.
HitCardKeepsButtons ==
  \E d \in Deal(cards) :
    LET hand == Append(player, d[1])
        pv == value_of_hand(hand)
        won == EndRoundWinnings(
                 EndRoundResult(pv, value_of_hand(dealer)), bet)
    IN  /\ cards' = d[2]
        /\ player' = hand
        /\ txt_player' = PlayerLabel(hand)
        /\ last_call' = "hit:ok"
        /\ IF pv > 21
           THEN /\ in_round' = FALSE
                /\ bankroll' = CheckBankroll(bankroll + won)
           ELSE UNCHANGED <<in_round, bankroll>>
        /\ lbl_bankroll' = bankroll'
        /\ UNCHANGED <<dealer, bet, rounds, btn_hit, btn_stand>>

\* Variant of HitCard: the card is put in front of the hand.
HitCardPrepends ==
  \E d \in Deal(cards) :
    LET hand == <<d[1]>> \o player
        pv == value_of_hand(hand)
        won == EndRoundWinnings(
                 EndRoundResult(pv, value_of_hand(dealer)), bet)
    IN  /\ cards' = d[2]
        /\ player' = hand
        /\ txt_player' = PlayerLabel(hand)
        /\ last_call' = "hit:ok"
        /\ IF pv > 21
           THEN /\ in_round' = FALSE
                /\ bankroll' = CheckBankroll(bankroll + won)
                /\ btn_hit' = "disabled"
                /\ btn_stand' = "disabled"
           ELSE UNCHANGED <<in_round, bankroll, btn_hit, btn_stand>>
        /\ lbl_bankroll' = bankroll'
        /\ UNCHANGED <<dealer, bet, rounds>>

\* hit after its guard: the card, the bust check with _end_round, and the
\* closing _update_ui.
HitCard ==
  \E d \in Deal(cards) :
    LET hand == Append(player, d[1])
        pv == value_of_hand(hand)
        won == EndRoundWinnings(
                 EndRoundResult(pv, value_of_hand(dealer)), bet)
    IN  /\ cards' = d[2]
        /\ player' = hand
        /\ txt_player' = PlayerLabel(hand)
        /\ last_call' = "hit:ok"
        /\ IF pv > 21
           THEN /\ in_round' = FALSE
                /\ bankroll' = CheckBankroll(bankroll + won)
                /\ btn_hit' = "disabled"
                /\ btn_stand' = "disabled"
           ELSE UNCHANGED <<in_round, bankroll, btn_hit, btn_stand>>
        /\ lbl_bankroll' = bankroll'
        /\ UNCHANGED <<dealer, bet, rounds>>

\* Variant of Hit: without the guard on the round in progress.
HitUnguarded == HitCard

Hit ==
  IF ~in_round
  THEN /\ last_call' = "hit:ignored"
       /\ UNCHANGED <<engine, widgets, rounds>>
  ELSE HitCard

----------------------------------------------------------------------------
(* stand *)

Stand ==
  IF ~in_round
  THEN /\ last_call' = "stand:ignored"
       /\ UNCHANGED <<engine, widgets, rounds>>
  ELSE \E end \in DealerPlay(dealer, cards) :
         LET won == EndRoundWinnings(
                      EndRoundResult(value_of_hand(player),
                                     value_of_hand(end[1])), bet)
         IN  /\ dealer' = end[1]
             /\ cards' = end[2]
             /\ in_round' = FALSE
             /\ btn_hit' = "disabled"
             /\ btn_stand' = "disabled"
             /\ txt_player' = PlayerLabel(player)
             /\ lbl_bankroll' = bankroll + won
             /\ bankroll' = CheckBankroll(bankroll + won)
             /\ last_call' = "stand:ok"
             /\ UNCHANGED <<player, bet, rounds>>

----------------------------------------------------------------------------

Next == NewRound \/ Hit \/ Stand

Spec == Init /\ [][Next]_vars

----------------------------------------------------------------------------
(* value_of_hand on its own: every hand of up to MaxHandLen cards *)

\* value_of_hand reads the ranks only (for r, _ in hand): one suit suffices.
HandCards == { <<RANKS[i], SUITS[1]>> : i \in 1..Len(RANKS) }

BoundedHands == UNION { [1..n -> HandCards] : n \in 0..MaxHandLen }

InitHand ==
  /\ player \in BoundedHands
  /\ cards = FreshDeck
  /\ dealer = <<>>
  /\ in_round = FALSE
  /\ bankroll = StartBankroll
  /\ bet = StartBet
  /\ btn_hit = "disabled"
  /\ btn_stand = "disabled"
  /\ lbl_bankroll = StartBankroll
  /\ txt_player = <<>>
  /\ last_call = "init"
  /\ rounds = 0

\* _update_ui: the player label and the bankroll label.
UpdateUI ==
  /\ txt_player' = PlayerLabel(player)
  /\ lbl_bankroll' = bankroll
  /\ last_call' = "update_ui"
  /\ UNCHANGED <<engine, btn_hit, btn_stand, rounds>>

NextHand == UpdateUI

SpecHand == InitHand /\ [][NextHand]_vars

----------------------------------------------------------------------------
(* Blackjack arithmetic the properties are stated with, written apart from *)
(* the code's own loops.                                                   *)

\* Position of a rank in RANKS: 2 is first, A is last.
RankPos(r) == CHOOSE i \in 1..Len(RANKS) : RANKS[i] = r

\* A card counted the hard way: 2..10 at face value, J/Q/K 10, an ace 1.
HardValue(c) ==
  IF c[1] = "A" THEN 1
  ELSE IF RankPos(c[1]) <= 9 THEN RankPos(c[1]) + 1
  ELSE 10

RECURSIVE HardTotal(_)
HardTotal(hand) ==
  IF hand = <<>> THEN 0 ELSE HardValue(Head(hand)) + HardTotal(Tail(hand))

AcePositions(hand) == { i \in 1..Len(hand) : hand[i][1] = "A" }

\* Every total of the hand: each choice of k aces counted 11 instead of 1.
Totals(hand) ==
  { HardTotal(hand) + 10 * k : k \in 0..Cardinality(AcePositions(hand)) }

Largest(S) == CHOOSE m \in S : \A x \in S : x <= m

BestTotal(hand) ==
  LET fit == { t \in Totals(hand) : t <= 21 }
  IN  IF fit # {} THEN Largest(fit) ELSE HardTotal(hand)

\* The settlement table of _end_round as an amount credited.
TableCredit(pv, dv, b) ==
  IF pv > 21 THEN 0
  ELSE IF dv > 21 \/ pv > dv THEN 2 * b
  ELSE IF pv = dv THEN b
  ELSE 0

\* A bankroll after the exhaustion rule.
AfterReset(bk) == IF bk <= 0 THEN 1000 ELSE bk

\* Cards left in a shoe of n cards once k more cards were dealt from it
\* (k at most the size of a full shoe): a refill happens when it runs out.
ShoeSizeAfter(n, k) ==
  IF k <= n THEN n - k ELSE Cardinality(FreshDeck) - (k - n)

Ace == <<"A", "spades">>

Nine == <<"9", "spades">>

King == <<"K", "spades">>

----------------------------------------------------------------------------
(* Properties *)

\* C6: value_of_hand returns the best blackjack total of every hand: the
\* largest total of at most 21 with each ace counted 1 or 11, and the total
\* with every ace counted 1 when no total fits; [A,9] and [A,9,K] are 20.
C6_BestTotal ==
  /\ value_of_hand(player) = BestTotal(player)
  /\ value_of_hand(dealer) = BestTotal(dealer)
  /\ txt_player # <<>> => txt_player = <<BestTotal(player)>>
  /\ value_of_hand(<<Ace, Nine>>) = 20
  /\ value_of_hand(<<Ace, Nine, King>>) = 20

\* C6 witness: the hand [A, A, K, 9] has been valued (two aces reduced).
C6_Witness ==
  /\ player = <<Ace, Ace, King, Nine>>
  /\ txt_player = <<21>>

\* C7: deal never fails in a reachable shoe: from a shoe with cards it
\* returns one of them and the shoe loses exactly that card; from an empty
\* shoe it deals out of a full deck, leaving the full deck less one card.
C7_DealNeverFails ==
  /\ Deal(cards) # {}
  /\ \A d \in Deal(cards) :
       IF cards # {}
       THEN /\ d[1] \in cards
            /\ d[2] = cards \ {d[1]}
            /\ Cardinality(d[2]) = Cardinality(cards) - 1
       ELSE /\ d[1] \in FreshDeck
            /\ d[2] = FreshDeck \ {d[1]}
            /\ Cardinality(d[2]) = DeckSize - 1
  /\ cards \subseteq FreshDeck
  /\ Cardinality(AllCards) = 52

\* C7 witness: one card has been dealt out of a refilled shoe.
C7_Witness ==
  /\ rounds >= 1
  /\ Cardinality(cards) = DeckSize - 1

\* A step that settles a round in progress: the bust of hit, or stand.
SettlesByPlay == in_round /\ ~in_round'

\* A step in which new_round accepted the bet.
RoundAccepted == rounds' = rounds + 1

\* C1: a settlement reached through hit (bust) or stand credits what the
\* settlement table gives for the final player and dealer values: nothing
\* on a bust, twice the bet on a win, the bet on a push, nothing on a loss;
\* the bankroll is the staked bankroll plus that credit, then the
\* exhaustion rule.
C1_SettlementTable ==
  [][SettlesByPlay =>
       LET pv == BestTotal(player')
           dv == BestTotal(dealer')
       IN  /\ bet' = bet
           /\ bankroll' = AfterReset(bankroll + TableCredit(pv, dv, bet))]_vars

\* C1 witness: a stand won with the odd bet (player above a standing
\* dealer), the bankroll up by the bet over the round.
C1_Witness ==
  /\ last_call = "stand:ok"
  /\ rounds = 1
  /\ bet = OddBet
  /\ BestTotal(dealer) <= 21
  /\ BestTotal(player) > BestTotal(dealer)
  /\ bankroll = StartBankroll + OddBet

\* C2: an accepted new_round with bet b from bankroll B settles at once at
\* B - b + floor(2.5 b) when only the player's two cards total 21, at B
\* when both hands total 21, and otherwise is the player's turn at B - b;
\* exactly four cards are dealt in each case.
C2_NaturalBlackjack ==
  [][RoundAccepted =>
       LET pv == BestTotal(player')
           dv == BestTotal(dealer')
           paid == bankroll' - (bankroll - bet')
       IN  /\ Len(player') = 2 /\ Len(dealer') = 2
           /\ (pv = 21 /\ dv # 21) =>
                /\ ~in_round'
                /\ 2 * paid <= 5 * bet' /\ 5 * bet' < 2 * paid + 2
           /\ (pv = 21 /\ dv = 21) => ~in_round' /\ bankroll' = bankroll
           /\ pv # 21 => in_round' /\ bankroll' = bankroll - bet'
           /\ Cardinality(cards') = ShoeSizeAfter(Cardinality(cards), 4)
           /\ 1000 - 10 + BlackjackWinnings(10) = 1015]_vars

\* C2 witness: a natural blackjack on the odd bet 5 paid 12, not 12.5.
C2_Witness ==
  /\ last_call = "new_round:ok"
  /\ ~in_round
  /\ rounds = 1
  /\ BestTotal(player) = 21 /\ BestTotal(dealer) # 21
  /\ bet = OddBet
  /\ bankroll = StartBankroll - OddBet + 12

NewRoundRejections ==
  {"new_round:in_progress", "new_round:invalid_bet", "new_round:insufficient"}

\* C3: a rejected new_round leaves bankroll, bet, both hands, the shoe and
\* the round state as they were, and a round in progress is reported
\* before the bet is looked at: during a round every new_round ends as
\* "in progress", whatever the bet entry holds.
C3_RejectedStart ==
  [][/\ last_call' \in NewRoundRejections => UNCHANGED engine
     /\ last_call' \in {"new_round:invalid_bet", "new_round:insufficient"}
          => ~in_round
     /\ last_call' = "new_round:in_progress" => in_round
     /\ (in_round /\ last_call' = "new_round:ok") => FALSE]_vars

\* C3 witness: new_round was rejected during a round in which the player
\* had already hit.
C3_Witness ==
  /\ last_call = "new_round:in_progress"
  /\ in_round
  /\ Len(player) >= 3
  /\ bankroll = StartBankroll - OddBet

\* C4: hit and stand outside the player's turn change nothing: bankroll,
\* bet, hands, shoe, round state and the controls stay as they were.
C4_IgnoredPlay ==
  [][(~in_round /\ last_call' \in {"hit:ok", "hit:ignored",
                                   "stand:ok", "stand:ignored"})
       => /\ last_call' \in {"hit:ignored", "stand:ignored"}
          /\ UNCHANGED <<engine, widgets>>]_vars

\* C4 witness: hit pressed after the round ended in a bust.
C4_Witness ==
  /\ last_call = "hit:ignored"
  /\ ~in_round
  /\ BestTotal(player) > 21

\* C5: the bankroll is never negative, it is at least 1 whenever no round
\* is in progress, and a settlement that would leave it at 0 or less sets
\* it to 1000 in the same step.
C5_BankrollFloor ==
  /\ [](bankroll >= 0 /\ (~in_round => bankroll >= 1))
  /\ [][(SettlesByPlay /\
         bankroll + TableCredit(BestTotal(player'), BestTotal(dealer'), bet)
           <= 0) => bankroll' = 1000]_vars

\* C5 witness: an all-in stand was lost; the label still shows the 0 that
\* the reset replaced by 1000.
C5_Witness ==
  /\ last_call = "stand:ok"
  /\ bet = StartBankroll
  /\ lbl_bankroll = 0
  /\ bankroll = 1000

\* C8: an accepted new_round takes the bet (at least 1, at most the
\* bankroll) off the bankroll before the blackjack check, replaces both
\* hands by two cards each and draws player 1, player 2, dealer 1,
\* dealer 2 in that order: the cards still in the old shoe go out first,
\* the rest come from the refilled shoe.
C8_OpeningDeal ==
  [][RoundAccepted =>
       LET n == Cardinality(cards)
           k == IF n >= 4 THEN 4 ELSE n
           drawn == player' \o dealer'
           old == { drawn[i] : i \in 1..k }
           new == { drawn[i] : i \in (k + 1)..4 }
       IN  /\ Len(player') = 2 /\ Len(dealer') = 2
           /\ bet' >= 1 /\ bet' <= bankroll
           /\ in_round' => bankroll' = bankroll - bet'
           /\ bankroll' >= bankroll - bet'
           /\ old \subseteq cards /\ Cardinality(old) = k
           /\ IF n >= 4
              THEN cards' = cards \ old
              ELSE /\ old = cards
                   /\ new \subseteq FreshDeck
                   /\ Cardinality(new) = 4 - k
                   /\ cards' = FreshDeck \ new]_vars

\* C8 witness: a second round opened with a shoe that ran out between the
\* player's and the dealer's cards.
C8_Witness ==
  /\ last_call = "new_round:ok"
  /\ rounds = 2
  /\ in_round
  /\ Cardinality(cards) = DeckSize - 2

\* C9: a hit that takes the player over 21 settles the round as lost in
\* the same step: the round is over, the dealer keeps the two opening
\* cards, the bet stays, nothing is credited (the exhaustion rule apart).
C9_Bust ==
  [][(in_round /\ last_call' = "hit:ok" /\ BestTotal(player') > 21)
       => /\ ~in_round'
          /\ dealer' = dealer /\ Len(dealer') = 2
          /\ bet' = bet
          /\ bankroll' = AfterReset(bankroll)
          /\ btn_hit' = "disabled" /\ btn_stand' = "disabled"]_vars

\* C9 witness: the odd bet was lost by a bust.
C9_Witness ==
  /\ last_call = "hit:ok"
  /\ ~in_round
  /\ BestTotal(player) > 21
  /\ Len(dealer) = 2
  /\ bankroll = StartBankroll - OddBet

\* C10: stand in the player's turn always ends the round in that step: it
\* can always run, the dealer has drawn only while below 17 and ends at 17
\* or more, the two opening cards still lead the dealer hand and the
\* player hand is untouched.
C10_Stand ==
  /\ [](in_round => DealerPlay(dealer, cards) # {})
  /\ [][(in_round /\ last_call' = "stand:ok")
          => /\ ~in_round'
             /\ BestTotal(dealer') >= 17
             /\ Len(dealer') >= 2
             /\ SubSeq(dealer', 1, 2) = dealer
             /\ \A k \in 2..(Len(dealer') - 1) :
                  BestTotal(SubSeq(dealer', 1, k)) < 17
             /\ player' = player
             /\ Cardinality(cards') =
                  ShoeSizeAfter(Cardinality(cards), Len(dealer') - 2)]_vars

\* C10 witness: the dealer drew two cards after the stand.
C10_Witness ==
  /\ last_call = "stand:ok"
  /\ ~in_round
  /\ Len(dealer) = 4
  /\ BestTotal(dealer) >= 17

----------------------------------------------------------------------------
(* stand, one turn of the dealer's loop at a time.  The handlers still run *)
(* to completion: while stand is inside _dealer_play (last_call is         *)
(* "stand:dealing") no other handler starts.                               *)

InDealerPlay == last_call = "stand:dealing"

\* new_round, pressed while no handler is running.
StepNewRound == ~InDealerPlay /\ rounds < StepRounds /\ NewRound

\* Variant of StepHit: a hit in a round deals no card.
StepHitNoCard ==
  /\ ~InDealerPlay
  /\ last_call' = IF in_round THEN "hit:ok" ELSE "hit:ignored"
  /\ UNCHANGED <<engine, widgets, rounds>>

\* hit, pressed while no handler is running.
StepHit == ~InDealerPlay /\ Hit

\* stand up to the first test of the while loop of _dealer_play.
StepStand ==
  /\ ~InDealerPlay
  /\ IF ~in_round
     THEN /\ last_call' = "stand:ignored"
          /\ UNCHANGED <<engine, widgets, rounds>>
     ELSE /\ btn_hit' = "disabled"
          /\ btn_stand' = "disabled"
          /\ last_call' = "stand:dealing"
          /\ UNCHANGED <<engine, lbl_bankroll, txt_player, rounds>>

\* Variant of DealerDraw: the card drawn takes the place of the dealer's
\* last card.
DealerDrawReplaces ==
  /\ InDealerPlay
  /\ value_of_hand(dealer) < 17
  /\ \E d \in Deal(cards) :
       /\ dealer' = [dealer EXCEPT ![Len(dealer)] = d[1]]
       /\ cards' = d[2]
  /\ UNCHANGED <<player, in_round, bankroll, bet, widgets, last_call, rounds>>

\* Variant of DealerDraw: the card drawn is not put in the dealer's hand.
DealerDrawDropsCard ==
  /\ InDealerPlay
  /\ value_of_hand(dealer) < 17
  /\ \E d \in Deal(cards) : cards' = d[2]
  /\ UNCHANGED <<player, dealer, in_round, bankroll, bet, widgets, last_call,
                 rounds>>

\* One turn of the loop: the test value_of_hand(self.dealer) < 17 holds,
\* a card is dealt and appended.
DealerDraw ==
  /\ InDealerPlay
  /\ value_of_hand(dealer) < 17
  /\ \E d \in Deal(cards) :
       /\ dealer' = Append(dealer, d[1])
       /\ cards' = d[2]
  /\ UNCHANGED <<player, in_round, bankroll, bet, widgets, last_call, rounds>>

\* The loop test fails: the rest of _dealer_play and _end_round.
DealerDone ==
  /\ InDealerPlay
  /\ ~(value_of_hand(dealer) < 17)
  /\ LET won == EndRoundWinnings(
                  EndRoundResult(value_of_hand(player),
                                 value_of_hand(dealer)), bet)
     IN  /\ in_round' = FALSE
         /\ btn_hit' = "disabled"
         /\ btn_stand' = "disabled"
         /\ txt_player' = PlayerLabel(player)
         /\ lbl_bankroll' = bankroll + won
         /\ bankroll' = CheckBankroll(bankroll + won)
         /\ last_call' = "stand:ok"
  /\ UNCHANGED <<cards, player, dealer, bet, rounds>>

\* hit or stand pressed during the player's turn.
PlayerActs == in_round /\ (StepHit \/ StepStand)

NextSteps == StepNewRound \/ StepHit \/ StepStand \/ DealerDraw \/ DealerDone

SpecSteps == Init /\ [][NextSteps]_vars

\* A handler that has started runs on to its end, and a player in a round
\* keeps pressing Hit or Stand.
FairSteps ==
  /\ SpecSteps
  /\ WF_vars(DealerDraw)
  /\ WF_vars(DealerDone)
  /\ WF_vars(PlayerActs)

\* C11: the dealer's automatic play always terminates, whatever cards the
\* shoe gives and also across a refill: once stand has entered the loop it
\* reaches the end of the round, and the dealer never holds more than 17
\* cards (two opening cards and at most 15 drawn).
C11_DealerPlayTerminates ==
  /\ [](InDealerPlay => Len(dealer) <= 17)
  /\ InDealerPlay ~> (last_call = "stand:ok" /\ BestTotal(dealer) >= 17)

\* C11 witness: the loop ended after the shoe ran out and was refilled in
\* it (the dealer drew a card a second time).
C11_Witness ==
  /\ last_call = "stand:ok"
  /\ Len(player) = 2
  /\ Len(dealer) >= 4
  /\ \E i \in 3..Len(dealer) : dealer[i] \in {dealer[1], dealer[2]}

\* A turn of the dealer's loop: the dealer hand changes inside _dealer_play.
DealerDrew == InDealerPlay /\ dealer' # dealer

\* C12 as stated: every card the dealer draws makes the value of the
\* dealer hand strictly greater than before the draw.
C12_ValueOnlyIncreases ==
  [][DealerDrew => value_of_hand(dealer') > value_of_hand(dealer)]_vars

\* C12 amended: every card the dealer draws is appended and makes the hard
\* total (each ace counted 1) strictly greater; the value is strictly
\* greater too unless the hand was soft (an ace counted 11) and the draw
\* turns that ace into 1, and then it is the old value plus the card's
\* hard value minus 10, which may be equal or smaller.
C12_HardTotalIncreases ==
  [][DealerDrew =>
       LET c == dealer'[Len(dealer')]
           old == value_of_hand(dealer)
           new == value_of_hand(dealer')
       IN  /\ dealer' = Append(dealer, c)
           /\ HardTotal(dealer') > HardTotal(dealer)
           /\ \/ new > old
              \/ /\ old # HardTotal(dealer)
                 /\ new = old + HardValue(c) - 10]_vars

\* C12 witness: the dealer's last draw left the value where it was or
\* below (a soft hand turned hard).
C12_Witness ==
  /\ last_call \in {"stand:dealing", "stand:ok"}
  /\ Len(dealer) >= 3
  /\ value_of_hand(dealer)
       <= value_of_hand(SubSeq(dealer, 1, Len(dealer) - 1))

\* The orders a hand of n cards can be put in.
Perms(n) == { f \in [1..n -> 1..n] : \A i, j \in 1..n : f[i] = f[j] => i = j }

Reordered(hand, f) == [i \in 1..Len(hand) |-> hand[f[i]]]

\* value_of_hand on every hand of up to MaxOrderLen cards, over all ranks.
InitOrder == InitHand /\ Len(player) <= MaxOrderLen

SpecOrder == InitOrder /\ [][NextHand]_vars

\* C13: value_of_hand does not depend on the order of the cards: every
\* reordering of a hand has the value of the hand.
C13_OrderIndependent ==
  \A f \in Perms(Len(player)) :
    value_of_hand(Reordered(player, f)) = value_of_hand(player)

\* C13 witness: [K, 9, A] has been valued 20, as [A, 9, K] is.
C13_Witness ==
  /\ player = <<King, Nine, Ace>>
  /\ txt_player = <<20>>
  /\ value_of_hand(<<Ace, Nine, King>>) = 20

----------------------------------------------------------------------------
(* Deck on its own: a caller that deals card after card from the shoe      *)
(* built by __init__ and keeps what deal returns, in order, in player.     *)

DealNext ==
  /\ Len(player) < MaxDeals
  /\ \E d \in Deal(cards) :
       /\ cards' = d[2]
       /\ player' = Append(player, d[1])
  /\ last_call' = "deal"
  /\ UNCHANGED <<dealer, in_round, bankroll, bet, widgets, rounds>>

NextDeck == DealNext

SpecDeck == Init /\ [][NextDeck]_vars

\* The run of deals, counted from the first, that deal number i belongs
\* to: a fresh shoe serves DeckSize deals.
ShoeRun(i) == (i - 1) \div DeckSize

\* The cards dealt out of the shoe as it is now.
DealtFromShoe ==
  { player[i] : i \in { k \in 1..Len(player) :
                          /\ ShoeRun(k) = ShoeRun(Len(player))
                          /\ Cardinality(cards) < DeckSize } }

\* C14: the shoe holds between 0 and 52 pairwise distinct cards of the
\* standard deck (a fresh shoe lists each of them once), and between two
\* refills no card is dealt twice: the deals served by one shoe return
\* different cards, which are exactly the cards the shoe has lost.
C14_ShoeCards ==
  /\ Len(SourceDeck) = 52
  /\ \A i, j \in 1..Len(SourceDeck) : SourceDeck[i] = SourceDeck[j] => i = j
  /\ { SourceDeck[i] : i \in 1..Len(SourceDeck) } = AllCards
  /\ \A i, j \in 1..Len(DeckOrder) : DeckOrder[i] = DeckOrder[j] => i = j
  /\ Cardinality(FreshDeck) = DeckSize /\ FreshDeck \subseteq AllCards
  /\ cards \subseteq FreshDeck
  /\ Cardinality(cards) \in 0..52
  /\ \A i, j \in 1..Len(player) :
       (ShoeRun(i) = ShoeRun(j) /\ player[i] = player[j]) => i = j
  /\ cards = FreshDeck \ DealtFromShoe
  /\ Len(player) >= DeckSize =>
       { player[i] : i \in 1..DeckSize } = FreshDeck

\* C14 witness: a whole shoe was dealt, each card once, and one card more
\* out of the refilled shoe.
C14_Witness ==
  /\ last_call = "deal"
  /\ Len(player) = DeckSize + 1
  /\ Cardinality(cards) = DeckSize - 1
  /\ player[DeckSize + 1] = player[1]

----------------------------------------------------------------------------
(* The buttons, the hit that does not bust, the bankroll label. *)

\* C15: after every completed operation, accepted or rejected, the Hit and
\* Stand buttons are enabled exactly when a round is in the player's turn;
\* so they are disabled after a natural blackjack, after a bust and after
\* a stand, until a new round reaches the player's turn.
C15_ButtonsFollowRound ==
  /\ btn_hit \in {"normal", "disabled"}
  /\ btn_stand \in {"normal", "disabled"}
  /\ (btn_hit = "normal") <=> in_round
  /\ (btn_stand = "normal") <=> in_round

\* C15 witness: the second round ends by a bust on the second hit; the
\* buttons, enabled during the player's turn, are disabled.
C15_Witness ==
  /\ last_call = "hit:ok"
  /\ rounds = 2
  /\ ~in_round
  /\ Len(player) = 4
  /\ value_of_hand(player) > 21
  /\ btn_hit = "disabled" /\ btn_stand = "disabled"

\* C16: a hit in the player's turn that leaves the hand at 21 or less puts
\* exactly the card taken from the shoe at the end of the player's hand and
\* changes nothing else: the round goes on, bankroll, bet and dealer's hand
\* are as before; and the bet does not change while a round goes on.
C16_HitKeepsRound ==
  [][ /\ (in_round /\ last_call' = "hit:ok" /\ value_of_hand(player') <= 21)
         => /\ \E c \in ShoeToPop(cards) :
                 /\ player' = Append(player, c)
                 /\ cards' = ShoeToPop(cards) \ {c}
            /\ in_round'
            /\ UNCHANGED <<bankroll, bet, dealer, btn_hit, btn_stand>>
      /\ (in_round /\ in_round') => bet' = bet ]_vars

\* C16 witness: the player's turn goes on after two hits that did not bust.
C16_Witness ==
  /\ last_call = "hit:ok"
  /\ in_round
  /\ Len(player) = 4
  /\ value_of_hand(player) <= 21
  /\ bankroll = StartBankroll - bet

\* C17: after every completed operation the bankroll label shows the
\* engine's bankroll, also after a loss that resets the bankroll to 1000.
C17_LabelShowsBankroll == lbl_bankroll = bankroll

----------------------------------------------------------------------------
(* The cards of one round. *)

\* The cards of the two hands in the order deal returned them: the opening
\* deal (player, player, dealer, dealer), the hits, the dealer's draws.
RoundDeals ==
  IF Len(player) < 2 \/ Len(dealer) < 2
  THEN player \o dealer
  ELSE <<player[1], player[2], dealer[1], dealer[2]>>
       \o SubSeq(player, 3, Len(player))
       \o SubSeq(dealer, 3, Len(dealer))

\* How many cards the shoe has lost since it was last filled.
SinceRefill == DeckSize - Cardinality(cards)

\* The cards of the round that came out of the shoe as it is now.
FromThisShoe ==
  SubSeq(RoundDeals,
         Len(RoundDeals) - Min(SinceRefill, Len(RoundDeals)) + 1,
         Len(RoundDeals))

Distinct(seq) == \A i, j \in 1..Len(seq) : seq[i] = seq[j] => i = j

\* C18 as stated: the cards of the player's and the dealer's hand are
\* pairwise distinct within a round, also when the shoe is refilled during
\* the round.
C18_HandsDistinct == Distinct(player \o dealer)

\* C18 as amended: the cards of the round dealt since the shoe was last
\* filled are pairwise distinct and none of them is still in the shoe; so
\* all cards of a round are pairwise distinct when the shoe was not
\* refilled during it.
C18_DistinctSinceRefill ==
  /\ Distinct(FromThisShoe)
  /\ \A i \in 1..Len(FromThisShoe) : FromThisShoe[i] \notin cards
  /\ SinceRefill >= Len(RoundDeals) => Distinct(player \o dealer)

\* C18 witness: the shoe was refilled during a round, and a hand holds a
\* card of before the refill a second time.
C18_Witness ==
  /\ Len(player) >= 2
  /\ SinceRefill < Len(RoundDeals)
  /\ SinceRefill >= 2
  /\ ~Distinct(player \o dealer)

\* C19: whenever a round is in the player's turn, the player's hand has at
\* least two cards, its value is at most 21, and it is not a 21 of two
\* cards (an opening 21 is settled inside new_round).
C19_PlayerTurnHand ==
  in_round =>
    /\ Len(player) >= 2
    /\ value_of_hand(player) <= 21
    /\ ~(Len(player) = 2 /\ value_of_hand(player) = 21)

\* C19 witness: the player's turn goes on with a 21 made by a hit.
C19_Witness ==
  /\ in_round
  /\ last_call = "hit:ok"
  /\ Len(player) = 3
  /\ value_of_hand(player) = 21

----------------------------------------------------------------------------
(* The end of the player's turn. *)

\* C20: a round does not stay in the player's turn for ever: a hand in the
\* player's turn has a hard total of at most 21, every hit raises the hard
\* total, so a player who keeps hitting busts after at most 21 cards,
\* whatever the shoe gives, refills included; and a round that keeps
\* receiving hit or stand is settled in the end.
C20_RoundSettles ==
  /\ [](in_round => (HardTotal(player) <= 21 /\ Len(player) <= 21))
  /\ [][(in_round /\ last_call' = "hit:ok")
          => HardTotal(player') > HardTotal(player)]_vars
  /\ in_round ~> ~in_round

\* C20 witness: a round settled by a bust on the fourth hit, the shoe
\* having been refilled on the way.
C20_Witness ==
  /\ ~in_round
  /\ last_call = "hit:ok"
  /\ Len(player) = 6
  /\ value_of_hand(player) > 21
  /\ SinceRefill < Len(RoundDeals)

============================================================================
